---- MODULE Spec2Model ----
(***************************************************************************)
(* A model of the evolMerc trading dashboard in its two variants:          *)
(*   "cache" : src/EvolMerc.py        (Streamlit script, st.cache_data)     *)
(*   "loop"  : src/unnamed/part_000   (Dash app, background update thread)  *)
(*                                                                         *)
(* Numbers.  A Python float is modelled as an exact rational or NaN:       *)
(* [nan, num, den] with den > 0 and num/den in lowest terms.  Rounding of  *)
(* binary floating point is not modelled.  Comparisons follow IEEE/Python: *)
(* every ordered comparison with NaN is false, NaN != x is true.           *)
(* Labels of the loop variant carry an emoji prefix in the source; the     *)
(* prefix is left out of the strings here (the module is ASCII).           *)
(***************************************************************************)
EXTENDS Integers, Sequences, FiniteSets, TLC

VARIABLES
    variant,      \* which program runs: "cache" or "loop"
    now,          \* wall clock, seconds
    data_store,   \* symbol -> snapshot (the global / script-level dict)
    last_update,  \* loop: the global last_update, <<>> is None, else <<time>>
    fetched,      \* history: symbol -> what fetch_asset_data returned in the current cycle
    wpc,          \* loop: position of update_all_data; cache: position of the script run
    widx,         \* index into ASSETS of the load loop
    cache,        \* cache: st.cache_data entries, symbol -> [value, stored]
    clicked,      \* cache: this script run was triggered by the button
    rpc,          \* position of the rendering pass
    ridx,         \* index into ASSETS of the rendering loop
    rdata,        \* the local `data` of the rendering loop (last data_store.get)
    cards,        \* cards built so far by the current rendering pass
    traces,       \* chart traces built so far by the current rendering pass
    update_text,  \* loop: the text returned for 'last-update'
    call,         \* unit harness: function under test and its stage
    arg,          \* unit harness: the input
    ret           \* unit harness: the output

vars == <<variant, now, data_store, last_update, fetched, wpc, widx, cache, clicked,
          rpc, ridx, rdata, cards, traces, update_text, call, arg, ret>>

sysvars == <<variant, now, data_store, last_update, fetched, wpc, widx, cache, clicked,
             rpc, ridx, rdata, cards, traces, update_text>>

unitvars == <<call, arg, ret>>

(***************************************************************************)
(* Bounds of the model.                                                    *)
(***************************************************************************)
NumAssets == 2     \* how many of the entries of ASSETS are modelled
MaxLen == 3        \* longest upstream Close column of the unit harness
MaxPrice == 2      \* largest Close value of the unit harness
MaxAngle == 20     \* angles of the unit harness range over -MaxAngle..MaxAngle degrees
MaxCycles == 1     \* loop variant: sleeps of update_all_data after which the clock stops
MaxTicks == 2      \* cache variant: clock steps after which the clock stops
ClockStep == 40    \* cache variant: seconds per clock step

(***************************************************************************)
(* Floats.                                                                 *)
(***************************************************************************)
Abs(n) == IF n < 0 THEN 0 - n ELSE n

RECURSIVE GCD(_, _)
GCD(a, b) == IF b = 0 THEN a ELSE GCD(b, a % b)

NaN == [nan |-> TRUE, num |-> 0, den |-> 1]

Rat(n, d) ==
    LET s == IF d < 0 THEN 0 - 1 ELSE 1
        g == GCD(Abs(n), Abs(d))
    IN  [nan |-> FALSE, num |-> (s * n) \div g, den |-> (s * d) \div g]

F(n) == Rat(n, 1)

FAdd(a, b) == IF a.nan \/ b.nan THEN NaN ELSE Rat(a.num * b.den + b.num * a.den, a.den * b.den)
FSub(a, b) == IF a.nan \/ b.nan THEN NaN ELSE Rat(a.num * b.den - b.num * a.den, a.den * b.den)
FMul(a, b) == IF a.nan \/ b.nan THEN NaN ELSE Rat(a.num * b.num, a.den * b.den)
\* a / b for b # 0 (b may be NaN); the callers decide what b = 0 does
FDiv(a, b) == IF a.nan \/ b.nan THEN NaN ELSE Rat(a.num * b.den, a.den * b.num)

FGt(a, b) == ~a.nan /\ ~b.nan /\ a.num * b.den > b.num * a.den
FLt(a, b) == FGt(b, a)
FGe(a, b) == ~a.nan /\ ~b.nan /\ a.num * b.den >= b.num * a.den
FLe(a, b) == FGe(b, a)
FEq(a, b) == ~a.nan /\ ~b.nan /\ a.num * b.den = b.num * a.den
FNe(a, b) == ~FEq(a, b)
\* Python truthiness of a float: only 0.0 is falsy (NaN is truthy)
Truthy(a) == a.nan \/ a.num # 0

HasNaN(s) == \E i \in 1..Len(s) : s[i].nan

RECURSIVE FSum(_)
FSum(s) == IF s = <<>> THEN F(0) ELSE FAdd(Head(s), FSum(Tail(s)))

\* Python's builtin min / max over a list: keep the first, replace on a strict comparison
RECURSIVE PyMinFrom(_, _)
PyMinFrom(m, s) ==
    IF s = <<>> THEN m
    ELSE PyMinFrom(IF FLt(Head(s), m) THEN Head(s) ELSE m, Tail(s))

RECURSIVE PyMaxFrom(_, _)
PyMaxFrom(m, s) ==
    IF s = <<>> THEN m
    ELSE PyMaxFrom(IF FGt(Head(s), m) THEN Head(s) ELSE m, Tail(s))

PyMin(s) == PyMinFrom(Head(s), Tail(s))
PyMax(s) == PyMaxFrom(Head(s), Tail(s))

(***************************************************************************)
(* np.arctan(slope) * (180 / np.pi), in degrees to 1/100.  The arctangent  *)
(* is the odd, monotone approximation                                      *)
(*   atan(x) ~ x * (45 + 15.64 * (1 - x))   for 0 <= x <= 1  (degrees)     *)
(*   atan(x) = 90 - atan(1/x)               for x > 1                      *)
(* exact at 0 and 1 and within 0.25 degrees elsewhere.                     *)
(***************************************************************************)
ArctanDeg(slope) ==
    IF slope.nan THEN NaN
    ELSE LET a == Abs(slope.num)
             d == slope.den
             c == IF a <= d
                  THEN (a * (4500 * d + 1564 * (d - a))) \div (d * d)
                  ELSE 9000 - ((d * (4500 * a + 1564 * (a - d))) \div (a * a))
         IN  Rat(IF slope.num < 0 THEN 0 - c ELSE c, 100)

(***************************************************************************)
(* np.polyfit(x, y, 1)[0] for x = 0..n-1: the least-squares slope          *)
(*   (n*Sxy - Sx*Sy) / (n*Sxx - Sx*Sx).                                    *)
(***************************************************************************)
PolyfitSlope(prices) ==
    LET n   == Len(prices)
        Sx  == FSum([i \in 1..n |-> F(i - 1)])
        Sxx == FSum([i \in 1..n |-> F((i - 1) * (i - 1))])
        Sy  == FSum(prices)
        Sxy == FSum([i \in 1..n |-> FMul(F(i - 1), prices[i])])
    IN  FDiv(FSub(FMul(F(n), Sxy), FMul(Sx, Sy)),
             FSub(FMul(F(n), Sxx), FMul(Sx, Sx)))

(***************************************************************************)
(* calculate_slope.  With a NaN among the prices np.polyfit either returns *)
(* NaN coefficients or raises LinAlgError (SVD did not converge),          *)
(* depending on the LAPACK build: svd_fails is that choice.                *)
(***************************************************************************)
\* mutant: the length guard lets a single price through to np.polyfit, which fails on it
calculate_slope_guard_off(prices, svd_fails) ==
    IF Len(prices) < 1
    THEN [raised |-> FALSE, slope |-> F(0), angle |-> F(0)]
    ELSE IF Len(prices) < 2 \/ (HasNaN(prices) /\ svd_fails)
    THEN [raised |-> TRUE, slope |-> NaN, angle |-> NaN]
    ELSE LET slope == PolyfitSlope(prices)
         IN  [raised |-> FALSE, slope |-> slope, angle |-> ArctanDeg(slope)]

calculate_slope(prices, svd_fails) ==
    IF Len(prices) < 2
    THEN [raised |-> FALSE, slope |-> F(0), angle |-> F(0)]
    ELSE IF HasNaN(prices) /\ svd_fails
    THEN [raised |-> TRUE, slope |-> NaN, angle |-> NaN]
    ELSE LET slope == PolyfitSlope(prices)
         IN  [raised |-> FALSE, slope |-> slope, angle |-> ArctanDeg(slope)]

(***************************************************************************)
(* get_trend_info: a chain of strict comparisons, written out in both      *)
(* variants.                                                               *)
(***************************************************************************)
\* mutant: >= in place of >
get_trend_info_ge(angle) ==
    IF FGe(angle, F(15)) THEN [trend |-> "FORTE ALTA", trend_color |-> "#10B981"]
    ELSE IF FGe(angle, F(5)) THEN [trend |-> "ALTA MODERADA", trend_color |-> "#34D399"]
    ELSE IF FGe(angle, F(0 - 5)) THEN [trend |-> "LATERAL", trend_color |-> "#FBBF24"]
    ELSE IF FGe(angle, F(0 - 15)) THEN [trend |-> "BAIXA MODERADA", trend_color |-> "#FB923C"]
    ELSE [trend |-> "FORTE BAIXA", trend_color |-> "#EF4444"]

get_trend_info(angle) ==
    IF FGt(angle, F(15)) THEN [trend |-> "FORTE ALTA", trend_color |-> "#10B981"]
    ELSE IF FGt(angle, F(5)) THEN [trend |-> "ALTA MODERADA", trend_color |-> "#34D399"]
    ELSE IF FGt(angle, F(0 - 5)) THEN [trend |-> "LATERAL", trend_color |-> "#FBBF24"]
    ELSE IF FGt(angle, F(0 - 15)) THEN [trend |-> "BAIXA MODERADA", trend_color |-> "#FB923C"]
    ELSE [trend |-> "FORTE BAIXA", trend_color |-> "#EF4444"]

\* the loop variant's get_trend_info(slope, angle); slope is not used
get_trend_info_old(slope, angle) ==
    IF FGt(angle, F(15)) THEN [trend |-> "FORTE ALTA", trend_color |-> "#10B981"]
    ELSE IF FGt(angle, F(5)) THEN [trend |-> "ALTA MODERADA", trend_color |-> "#34D399"]
    ELSE IF FGt(angle, F(0 - 5)) THEN [trend |-> "LATERAL", trend_color |-> "#FBBF24"]
    ELSE IF FGt(angle, F(0 - 15)) THEN [trend |-> "BAIXA MODERADA", trend_color |-> "#FB923C"]
    ELSE [trend |-> "FORTE BAIXA", trend_color |-> "#EF4444"]

(***************************************************************************)
(* The upstream answer of yf.Ticker(symbol).history(...): the call raises  *)
(* (network error), or returns a frame whose Close column is a sequence of *)
(* floats, some possibly NaN; the empty sequence is the empty frame.  The  *)
(* index of a row stands for its timestamp.                                *)
(***************************************************************************)
None == [none |-> TRUE]

Raises == [kind |-> "raise", close |-> <<>>]
Frame(close) == [kind |-> "frame", close |-> close]

\* closes.dropna(): the positions of the rows that are kept
RECURSIVE KeptFrom(_, _)
KeptFrom(close, i) ==
    IF i > Len(close) THEN <<>>
    ELSE IF close[i].nan THEN KeptFrom(close, i + 1)
    ELSE <<i>> \o KeptFrom(close, i + 1)

dropna(close) == KeptFrom(close, 1)

\* change_pct of the cache variant: guarded by the truthiness of previous_price
change_pct(change, previous_price) ==
    IF Truthy(previous_price) THEN FMul(FDiv(change, previous_price), F(100)) ELSE F(0)

\* change_pct of the loop variant: a float division, ZeroDivisionError when previous_price == 0
change_pct_old(change, previous_price) ==
    IF FEq(previous_price, F(0)) THEN [raised |-> TRUE, value |-> NaN]
    ELSE [raised |-> FALSE, value |-> FMul(FDiv(change, previous_price), F(100))]

\* the loop variant's calculate_slope (returns the ints 0, 0 for a short list)
calculate_slope_old(prices, svd_fails) ==
    IF Len(prices) < 2
    THEN [raised |-> FALSE, slope |-> F(0), angle |-> F(0)]
    ELSE IF HasNaN(prices) /\ svd_fails
    THEN [raised |-> TRUE, slope |-> NaN, angle |-> NaN]
    ELSE LET slope == PolyfitSlope(prices)
         IN  [raised |-> FALSE, slope |-> slope, angle |-> ArctanDeg(slope)]

(***************************************************************************)
(* fetch_asset_data of the cache variant (the function body, without the   *)
(* cache): [raised, data].  An exception leaves the function.              *)
(***************************************************************************)
fetch_asset_data(symbol, up, svd_fails) ==
    IF up.kind = "raise" THEN [raised |-> TRUE, data |-> None]
    ELSE IF up.close = <<>> THEN [raised |-> FALSE, data |-> None]
    ELSE LET times  == dropna(up.close)
             prices == [i \in 1..Len(times) |-> up.close[times[i]]]
         IN  IF prices = <<>> THEN [raised |-> FALSE, data |-> None]
             ELSE LET current_price  == prices[Len(prices)]
                      previous_price == prices[1]
                      change == FSub(current_price, previous_price)
                      sl == calculate_slope(prices, svd_fails)
                      tr == get_trend_info(sl.angle)
                  IN  IF sl.raised THEN [raised |-> TRUE, data |-> None]
                      ELSE [raised |-> FALSE,
                            data |-> [current_price |-> current_price,
                                      last_time |-> times[Len(times)],
                                      change |-> change,
                                      change_pct |-> change_pct(change, previous_price),
                                      trend |-> tr.trend,
                                      trend_color |-> tr.trend_color,
                                      angle |-> sl.angle,
                                      prices |-> prices,
                                      times |-> times]]

(***************************************************************************)
(* fetch_asset_data of the loop variant: the whole body is in try/except,  *)
(* every exception becomes None.  Close is taken as it comes (no dropna).  *)
(***************************************************************************)
fetch_asset_data_old(symbol, up, svd_fails) ==
    IF up.kind = "raise" THEN None
    ELSE IF up.close = <<>> THEN None
    ELSE LET prices == up.close
             times  == [i \in 1..Len(up.close) |-> i]
         IN  IF Len(prices) < 2 THEN None
             ELSE LET current_price  == prices[Len(prices)]
                      previous_price == prices[1]
                      change == FSub(current_price, previous_price)
                      pct == change_pct_old(change, previous_price)
                      sl == calculate_slope_old(prices, svd_fails)
                      tr == get_trend_info_old(sl.slope, sl.angle)
                  IN  IF pct.raised \/ sl.raised THEN None
                      ELSE [symbol |-> symbol,
                            prices |-> prices,
                            times |-> times,
                            current_price |-> current_price,
                            change |-> change,
                            change_pct |-> pct.value,
                            slope |-> sl.slope,
                            angle |-> sl.angle,
                            trend |-> tr.trend,
                            trend_color |-> tr.trend_color]

(***************************************************************************)
(* Chart normalization.                                                    *)
(***************************************************************************)
NoTrace == [none |-> TRUE]

\* pandas Series.ffill() / .bfill()
RECURSIVE ffill(_)
ffill(s) ==
    IF Len(s) < 2 THEN s
    ELSE LET init == ffill(SubSeq(s, 1, Len(s) - 1))
             last == s[Len(s)]
         IN  Append(init, IF last.nan THEN init[Len(init)] ELSE last)

RECURSIVE bfill(_)
bfill(s) ==
    IF Len(s) < 2 THEN s
    ELSE LET rest == bfill(Tail(s))
         IN  <<IF Head(s).nan THEN Head(rest) ELSE Head(s)>> \o rest

\* the cache variant charts only the assets selected into `scripts`
InScripts(data) ==
    /\ data # None
    /\ Len(data.prices) > 1
    /\ FNe(PyMin(data.prices), PyMax(data.prices))

\* the cache variant's trace; the caller has checked InScripts(data)
Normalized(data) ==
    LET prices == bfill(ffill(data.prices))
        lo == PyMin(prices)
        hi == PyMax(prices)
    IN  [i \in 1..Len(prices) |->
            FMul(FDiv(FSub(prices[i], lo), FSub(hi, lo)), F(100))]

chart_trace(data) ==
    IF InScripts(data) THEN [y |-> Normalized(data), x |-> data.times] ELSE NoTrace

\* mutant: a constant series is drawn at 0 instead of 50
Normalized_old_flat0(data) ==
    LET prices == data.prices
        lo == PyMin(prices)
        hi == PyMax(prices)
    IN  [i \in 1..Len(prices) |->
            IF FNe(hi, lo)
            THEN FMul(FDiv(FSub(prices[i], lo), FSub(hi, lo)), F(100))
            ELSE F(0)]

\* the loop variant's trace for a truthy data
Normalized_old(data) ==
    LET prices == data.prices
        lo == PyMin(prices)
        hi == PyMax(prices)
    IN  [i \in 1..Len(prices) |->
            IF FNe(hi, lo)
            THEN FMul(FDiv(FSub(prices[i], lo), FSub(hi, lo)), F(100))
            ELSE F(50)]

chart_trace_old(data) ==
    IF data # None THEN [y |-> Normalized_old(data), x |-> data.times] ELSE NoTrace

(***************************************************************************)
(* Unit harness: one call of a function on an input drawn from a bounded   *)
(* set.  The system variables rest.                                        *)
(***************************************************************************)
Variants == {"cache", "loop"}

\* angles in steps of half a degree, and NaN
Angles == {Rat(k, 2) : k \in (0 - 2 * MaxAngle)..(2 * MaxAngle)} \cup {NaN}

Closes == {F(p) : p \in 0..MaxPrice} \cup {NaN}

SeqsUpTo(S, n) == UNION {[1..k -> S] : k \in 0..n}

Pending == [stage |-> "pending"]

SysRest ==
    /\ now = 0
    /\ data_store = <<>>
    /\ last_update = <<>>
    /\ fetched = <<>>
    /\ wpc = "off"
    /\ widx = 1
    /\ cache = <<>>
    /\ clicked = FALSE
    /\ rpc = "off"
    /\ ridx = 1
    /\ rdata = None
    /\ cards = <<>>
    /\ traces = <<>>
    /\ update_text = [text |-> "", time |-> 0]

UnitInit ==
    /\ SysRest
    /\ variant \in Variants
    /\ ret = Pending
    /\ \/ /\ call = "get_trend_info"
          /\ arg \in [angle : Angles]
       \/ /\ call = "estimate_trend"
          /\ arg \in {a \in [prices : SeqsUpTo(Closes, MaxLen), svd_fails : BOOLEAN] :
                        a.svd_fails => HasNaN(a.prices)}
       \/ /\ call = "fetch_asset_data"
          /\ arg \in {a \in [up : {Raises} \cup {Frame(c) : c \in SeqsUpTo(Closes, MaxLen)},
                             svd_fails : BOOLEAN] :
                        a.svd_fails => HasNaN(a.up.close)}

\* get_trend_info(angle) / get_trend_info(slope, angle)
CallTrend ==
    /\ call = "get_trend_info" /\ ret = Pending
    /\ ret' = [stage |-> "returned",
               info |-> IF variant = "cache" THEN get_trend_info(arg.angle)
                        ELSE get_trend_info_old(F(0), arg.angle)]
    /\ UNCHANGED <<sysvars, call, arg>>

\* slope, angle = calculate_slope(prices); trend, trend_color = get_trend_info(angle)
CallEstimate ==
    /\ call = "estimate_trend" /\ ret = Pending
    /\ LET sl == IF variant = "cache" THEN calculate_slope(arg.prices, arg.svd_fails)
                 ELSE calculate_slope_old(arg.prices, arg.svd_fails)
       IN  ret' = IF sl.raised THEN [stage |-> "raised"]
                  ELSE [stage |-> "returned", slope |-> sl.slope, angle |-> sl.angle,
                        info |-> IF variant = "cache" THEN get_trend_info(sl.angle)
                                 ELSE get_trend_info_old(sl.slope, sl.angle)]
    /\ UNCHANGED <<sysvars, call, arg>>

\* data = fetch_asset_data(symbol, ...)
CallFetch ==
    /\ call = "fetch_asset_data" /\ ret = Pending
    /\ ret' = IF variant = "cache"
              THEN LET r == fetch_asset_data("GC=F", arg.up, arg.svd_fails)
                   IN  IF r.raised THEN [stage |-> "raised"]
                       ELSE [stage |-> "returned", data |-> r.data]
              ELSE [stage |-> "returned",
                    data |-> fetch_asset_data_old("GC=F", arg.up, arg.svd_fails)]
    /\ UNCHANGED <<sysvars, call, arg>>

\* the chart trace of the data just fetched
CallChart ==
    /\ call = "fetch_asset_data" /\ ret.stage = "returned"
    /\ ret' = [stage |-> "charted", data |-> ret.data,
               trace |-> IF variant = "cache" THEN chart_trace(ret.data)
                         ELSE chart_trace_old(ret.data)]
    /\ UNCHANGED <<sysvars, call, arg>>

UnitNext == CallTrend \/ CallEstimate \/ CallFetch \/ CallChart

SpecUnit == UnitInit /\ [][UnitNext]_vars

(***************************************************************************)
(* The system.  ASSETS in dict order; the first NumAssets entries are      *)
(* modelled.  A Python dict is a function whose domain is its key set.     *)
(***************************************************************************)
ASSETS ==
    SubSeq(<<"GC=F", "SI=F", "CL=F", "^GSPC", "^NDX", "^DJI", "^GDAXI">>, 1, NumAssets)

ASSETS_old ==
    SubSeq(<<"GC=F", "SI=F", "NG=F", "BZ=F", "^GSPC", "EURUSD=X", "USDJPY=X">>, 1, NumAssets)

Assets == IF variant = "cache" THEN ASSETS ELSE ASSETS_old

Symbols == {Assets[i] : i \in 1..Len(Assets)}

EmptyDict == <<>>

Put(d, k, v) == [x \in DOMAIN d \cup {k} |-> IF x = k THEN v ELSE d[x]]

\* dict.get(k)
Get(d, k) == IF k \in DOMAIN d THEN d[k] ELSE None

TTL == 60            \* st.cache_data(ttl=60)
SleepSeconds == 60   \* time.sleep(60)

\* what the provider answers to one history() call of the running system
SysUpstream ==
    {Raises, Frame(<<>>), Frame(<<NaN>>), Frame(<<F(1), F(2)>>), Frame(<<F(2), F(1)>>)}

\* fetch_asset_data of each variant on every answer of SysUpstream, computed once
FetchedOld == [i \in 1..Len(ASSETS_old), up \in SysUpstream |->
                 fetch_asset_data_old(ASSETS_old[i], up, FALSE)]

Fetched == [i \in 1..Len(ASSETS), up \in SysUpstream |->
              fetch_asset_data(ASSETS[i], up, FALSE)]

(***************************************************************************)
(* Loop variant: the main block, update_all_data, update_dashboard.        *)
(***************************************************************************)
\* mutant: the stored dict is updated in place and its price list is left behind
store_snapshot_in_place(store, symbol, data) ==
    IF symbol \in DOMAIN store
    THEN [store EXCEPT ![symbol] = [data EXCEPT !.prices = store[symbol].prices]]
    ELSE Put(store, symbol, data)

\* data_store[symbol] = data: the dict entry is rebound to the new dict object
store_snapshot(store, symbol, data) == Put(store, symbol, data)

\* `if data: data_store[symbol] = data` of the loop variant
store_if_data_old(store, symbol, data) ==
    IF data # None THEN store_snapshot(store, symbol, data) ELSE store

\* mutant: the network error is not caught
fetch_escapes_old_on_raise(up) == up.kind = "raise"

\* whether an exception of the fetch leaves fetch_asset_data (try / except Exception
\* around the whole body: never)
fetch_escapes_old(up) == FALSE

\* one iteration of `for symbol in ASSETS.keys()`, in the main block and in the thread
FetchIteration ==
    /\ widx <= Len(Assets)
    /\ \E up \in SysUpstream :
         IF fetch_escapes_old(up)
         THEN /\ wpc' = "dead"
              /\ UNCHANGED <<data_store, fetched, widx>>
         ELSE LET symbol == Assets[widx]
                  data == FetchedOld[widx, up]
              IN  /\ data_store' = store_if_data_old(data_store, symbol, data)
                  /\ fetched' = Put(fetched, symbol, [raised |-> FALSE, hit |-> FALSE, data |-> data])
                  /\ widx' = widx + 1
                  /\ wpc' = wpc
    /\ UNCHANGED <<variant, now, last_update, cache, clicked, rpc, ridx, rdata, cards, traces,
                   update_text, unitvars>>

\* lines 283-286: the initial load in the main thread
MainLoad ==
    /\ variant = "loop" /\ wpc = "main_load"
    /\ FetchIteration

\* lines 287-300: last_update, start of the thread and of the server
MainStart ==
    /\ variant = "loop" /\ wpc = "main_load" /\ widx > Len(Assets)
    /\ last_update' = <<now>>
    /\ wpc' = "cycle"
    /\ widx' = 1
    /\ fetched' = EmptyDict
    /\ rpc' = "idle"
    /\ UNCHANGED <<variant, now, data_store, cache, clicked, ridx, rdata, cards, traces,
                   update_text, unitvars>>

\* lines 116-119: one iteration of the loop of update_all_data
UpdateFetch ==
    /\ variant = "loop" /\ wpc = "cycle"
    /\ FetchIteration

\* line 121: last_update = datetime.now()
UpdateStamp ==
    /\ variant = "loop" /\ wpc = "cycle" /\ widx > Len(Assets)
    /\ last_update' = <<now>>
    /\ wpc' = "sleep"
    /\ UNCHANGED <<variant, now, data_store, fetched, widx, cache, clicked, rpc, ridx, rdata,
                   cards, traces, update_text, unitvars>>

\* line 122: time.sleep(60), then the next pass of `while True`
UpdateSleep ==
    /\ variant = "loop" /\ wpc = "sleep"
    /\ now < MaxCycles * SleepSeconds
    /\ now' = now + SleepSeconds
    /\ wpc' = "cycle"
    /\ widx' = 1
    /\ fetched' = EmptyDict
    /\ UNCHANGED <<variant, data_store, last_update, cache, clicked, rpc, ridx, rdata, cards,
                   traces, update_text, unitvars>>

\* the card of the loop variant for a truthy data
card_old(symbol, data) ==
    [symbol |-> symbol,
     nodata |-> FALSE,
     up |-> FGe(data.change, F(0)),
     current_price |-> data.current_price,
     change |-> data.change,
     change_pct |-> data.change_pct,
     trend |-> data.trend,
     trend_color |-> data.trend_color,
     angle |-> data.angle]

\* lines 177-219: the cards after one more asset
cards_append_old(cs, symbol, data) ==
    IF data # None THEN Append(cs, card_old(symbol, data)) ELSE cs

\* lines 230-246: the traces after one more asset
traces_append_old(ts, symbol, data) ==
    IF data # None THEN Append(ts, [symbol |-> symbol, trace |-> chart_trace_old(data)]) ELSE ts

\* the Interval fires: update_dashboard(n) is called
DashStart ==
    /\ variant = "loop" /\ rpc = "idle"
    /\ rpc' = "cards"
    /\ ridx' = 1
    /\ cards' = <<>>
    /\ UNCHANGED <<variant, now, data_store, last_update, fetched, wpc, widx, cache, clicked,
                   rdata, traces, update_text, unitvars>>

\* lines 177-219: one iteration of the card loop
DashCard ==
    /\ variant = "loop" /\ rpc = "cards" /\ ridx <= Len(Assets)
    /\ LET data == Get(data_store, Assets[ridx])
       IN  /\ rdata' = data
           /\ cards' = cards_append_old(cards, Assets[ridx], data)
    /\ IF ridx < Len(Assets)
       THEN /\ ridx' = ridx + 1 /\ rpc' = rpc
       ELSE /\ ridx' = 1 /\ rpc' = "charts"
    /\ UNCHANGED <<variant, now, data_store, last_update, fetched, wpc, widx, cache, clicked,
                   traces, update_text, unitvars>>

\* lines 230-246: one iteration of the chart loop
DashChart ==
    /\ variant = "loop" /\ rpc = "charts" /\ ridx <= Len(Assets)
    /\ LET data == Get(data_store, Assets[ridx])
       IN  /\ rdata' = data
           /\ traces' = traces_append_old(traces, Assets[ridx], data)
    /\ IF ridx < Len(Assets)
       THEN /\ ridx' = ridx + 1 /\ rpc' = rpc
       ELSE /\ ridx' = 1 /\ rpc' = "text"
    /\ UNCHANGED <<variant, now, data_store, last_update, fetched, wpc, widx, cache, clicked,
                   cards, update_text, unitvars>>

\* lines 268-270: the update text, and the return (the locals are gone)
DashReturn ==
    /\ variant = "loop" /\ rpc = "text"
    /\ update_text' = IF last_update # <<>>
                      THEN [text |-> "Ultima atualizacao: ", time |-> last_update[1]]
                      ELSE [text |-> "Aguardando dados...", time |-> 0]
    /\ rpc' = "idle"
    /\ rdata' = None
    /\ cards' = <<>>
    /\ traces' = <<>>
    /\ UNCHANGED <<variant, now, data_store, last_update, fetched, wpc, widx, cache, clicked,
                   ridx, unitvars>>

Writer == MainLoad \/ MainStart \/ UpdateFetch \/ UpdateStamp \/ UpdateSleep

Reader == DashStart \/ DashCard \/ DashChart \/ DashReturn

(***************************************************************************)
(* Cache variant: one run of the script from top to bottom, started by the *)
(* first page load and again by every user interaction.                    *)
(***************************************************************************)
\* mutant: the cache never serves
cache_hit_never(c, symbol, t) == FALSE

\* st.cache_data(ttl=60): an entry is served until its time to live has passed
cache_hit(c, symbol, t) == symbol \in DOMAIN c /\ ~(c[symbol].stored + TTL < t)

\* mutant: the exception is not caught in the loop body
load_escapes_on_raise(r) == r.raised

\* whether an exception of the fetch leaves the loop body (try / except Exception
\* around the call: never)
load_escapes(r) == FALSE

\* `if data: data_store[symbol] = data` of the cache variant
store_if_data(store, symbol, data) ==
    IF data # None THEN Put(store, symbol, data) ELSE store

\* lines 66: a new run of the script starts from the top
NewRun(by_button) ==
    /\ data_store' = EmptyDict
    /\ fetched' = EmptyDict
    /\ widx' = 1
    /\ wpc' = "load"
    /\ clicked' = by_button
    /\ cards' = <<>>
    /\ traces' = <<>>

\* lines 67-73: one iteration of the load loop, through the cache
ScriptLoad ==
    /\ variant = "cache" /\ wpc = "load" /\ widx <= Len(Assets)
    /\ LET symbol == Assets[widx]
           next == IF widx < Len(Assets) THEN "load" ELSE "button"
       IN  IF cache_hit(cache, symbol, now)
           THEN LET data == cache[symbol].value
                IN  /\ data_store' = store_if_data(data_store, symbol, data)
                    /\ fetched' = Put(fetched, symbol, [raised |-> FALSE, hit |-> TRUE, data |-> data])
                    /\ widx' = widx + 1
                    /\ wpc' = next
                    /\ cache' = cache
           ELSE \E up \in SysUpstream :
                  LET r == Fetched[widx, up]
                  IN  IF r.raised /\ load_escapes(r)
                      THEN /\ wpc' = "crashed"
                           /\ UNCHANGED <<data_store, fetched, widx, cache>>
                      ELSE /\ data_store' = store_if_data(data_store, symbol, r.data)
                           /\ fetched' = Put(fetched, symbol,
                                             [raised |-> r.raised, hit |-> FALSE, data |-> r.data])
                           /\ widx' = widx + 1
                           /\ wpc' = next
                           /\ cache' = IF r.raised THEN cache
                                       ELSE Put(cache, symbol, [value |-> r.data, stored |-> now])
    /\ UNCHANGED <<variant, now, last_update, clicked, rpc, ridx, rdata, cards, traces,
                   update_text, unitvars>>

\* lines 78-80: st.button is true in the run its click started
ScriptButton ==
    /\ variant = "cache" /\ wpc = "button"
    /\ IF clicked
       THEN /\ cache' = EmptyDict
            /\ NewRun(FALSE)
       ELSE /\ wpc' = "cards"
            /\ UNCHANGED <<data_store, fetched, widx, cache, clicked, cards, traces>>
    /\ UNCHANGED <<variant, now, last_update, rpc, ridx, rdata, update_text, unitvars>>

\* lines 87-114: the card of one asset
card(symbol, data) ==
    IF data = None
    THEN [symbol |-> symbol, nodata |-> TRUE]
    ELSE [symbol |-> symbol,
          nodata |-> FALSE,
          up |-> FGe(data.change, F(0)),
          current_price |-> data.current_price,
          last_time |-> data.last_time,
          change |-> data.change,
          change_pct |-> data.change_pct,
          trend |-> data.trend,
          trend_color |-> data.trend_color,
          angle |-> data.angle]

\* lines 86-116
cards_html(store) == [i \in 1..Len(Assets) |-> card(Assets[i], Get(store, Assets[i]))]

ScriptCards ==
    /\ variant = "cache" /\ wpc = "cards"
    /\ cards' = cards_html(data_store)
    /\ wpc' = "charts"
    /\ UNCHANGED <<variant, now, data_store, last_update, fetched, widx, cache, clicked, rpc,
                   ridx, rdata, traces, update_text, unitvars>>

\* line 123
RECURSIVE scripts(_, _)
scripts(store, i) ==
    IF i > Len(Assets) THEN <<>>
    ELSE IF InScripts(Get(store, Assets[i])) THEN <<Assets[i]>> \o scripts(store, i + 1)
    ELSE scripts(store, i + 1)

\* lines 132-150
figure(store) ==
    LET sel == scripts(store, 1)
    IN  [i \in 1..Len(sel) |-> [symbol |-> sel[i], trace |-> chart_trace(store[sel[i]])]]

ScriptCharts ==
    /\ variant = "cache" /\ wpc = "charts"
    /\ traces' = figure(data_store)
    /\ wpc' = "idle"
    /\ UNCHANGED <<variant, now, data_store, last_update, fetched, widx, cache, clicked, rpc,
                   ridx, rdata, cards, update_text, unitvars>>

\* the user reloads the page or touches a widget: the running script is stopped and rerun
UserRerun ==
    /\ variant = "cache"
    /\ NewRun(FALSE)
    /\ UNCHANGED <<variant, now, last_update, cache, rpc, ridx, rdata, update_text, unitvars>>

\* the user presses "Atualizar Agora", once the button is on the page
UserClick ==
    /\ variant = "cache" /\ wpc \in {"cards", "charts", "idle"}
    /\ NewRun(TRUE)
    /\ UNCHANGED <<variant, now, last_update, cache, rpc, ridx, rdata, update_text, unitvars>>

\* time passes
Tick ==
    /\ variant = "cache"
    /\ now < MaxTicks * ClockStep
    /\ now' = now + ClockStep
    /\ UNCHANGED <<variant, data_store, last_update, fetched, wpc, widx, cache, clicked, rpc,
                   ridx, rdata, cards, traces, update_text, unitvars>>

Script == ScriptLoad \/ ScriptButton \/ ScriptCards \/ ScriptCharts

User == UserRerun \/ UserClick

(***************************************************************************)
(* Specifications.                                                         *)
(***************************************************************************)
UnitRest ==
    /\ call = "none"
    /\ arg = None
    /\ ret = Pending

SysStart ==
    /\ now = 0
    /\ data_store = EmptyDict
    /\ last_update = <<>>
    /\ fetched = EmptyDict
    /\ widx = 1
    /\ cache = EmptyDict
    /\ clicked = FALSE
    /\ rpc = "off"
    /\ ridx = 1
    /\ rdata = None
    /\ cards = <<>>
    /\ traces = <<>>
    /\ update_text = [text |-> "", time |-> 0]
    /\ UnitRest

InitLoop == variant = "loop" /\ wpc = "main_load" /\ SysStart

InitCache == variant = "cache" /\ wpc = "load" /\ SysStart

Init == InitLoop \/ InitCache

NextLoop == Writer \/ Reader

NextCache == Script \/ User \/ Tick

Next == NextLoop \/ NextCache

Spec == Init /\ [][Next]_vars

\* the refresh thread of the loop variant taken alone and scheduled fairly: the
\* callback assigns none of the variables the thread reads (every action of Reader
\* leaves data_store, last_update, fetched, wpc, widx and now unchanged), so the
\* thread behaves the same with and without it
SpecThreadFair == InitLoop /\ [][Writer]_vars /\ WF_vars(Writer)

(***************************************************************************)
(* Claims about the functions (checked under SpecUnit).                    *)
(***************************************************************************)
TrendReturned == call = "get_trend_info" /\ ret.stage = "returned"

TrendInfos ==
    {[trend |-> "FORTE ALTA", trend_color |-> "#10B981"],
     [trend |-> "ALTA MODERADA", trend_color |-> "#34D399"],
     [trend |-> "LATERAL", trend_color |-> "#FBBF24"],
     [trend |-> "BAIXA MODERADA", trend_color |-> "#FB923C"],
     [trend |-> "FORTE BAIXA", trend_color |-> "#EF4444"]}

\* C1: for every angle get_trend_info returns exactly one of the five labels, paired
\* with its fixed colour, chosen by strict comparisons against 15, 5, -5, -15: above 15
\* FORTE ALTA, in (5, 15] ALTA MODERADA, in (-5, 5] LATERAL, in (-15, -5] BAIXA MODERADA,
\* at or below -15 FORTE BAIXA; the values 15, 5, -5, -15 fall into the lower band.
C1_TrendBands ==
    TrendReturned =>
        LET n == arg.angle.num
            d == arg.angle.den
            t == ret.info
        IN  /\ t \in TrendInfos
            /\ (~arg.angle.nan /\ n > 15 * d) => t.trend = "FORTE ALTA"
            /\ (~arg.angle.nan /\ 5 * d < n /\ n <= 15 * d) => t.trend = "ALTA MODERADA"
            /\ (~arg.angle.nan /\ 0 - 5 * d < n /\ n <= 5 * d) => t.trend = "LATERAL"
            /\ (~arg.angle.nan /\ 0 - 15 * d < n /\ n <= 0 - 5 * d) => t.trend = "BAIXA MODERADA"
            /\ (~arg.angle.nan /\ n <= 0 - 15 * d) => t.trend = "FORTE BAIXA"

\* the boundary 15 has been classified, into the lower band
C1_Witness ==
    /\ TrendReturned
    /\ variant = "cache"
    /\ arg.angle = F(15)
    /\ ret.info.trend = "ALTA MODERADA"

\* C2: for a price sequence of length 0 or 1, calculate_slope followed by get_trend_info
\* returns slope 0, angle 0 and LATERAL without raising, and a snapshot built from a
\* single-point series carries LATERAL.
C2_ShortSeriesSideways ==
    /\ (call = "estimate_trend" /\ ret # Pending /\ Len(arg.prices) < 2) =>
          /\ ret.stage = "returned"
          /\ ret.slope = F(0)
          /\ ret.angle = F(0)
          /\ ret.info.trend = "LATERAL"
    /\ (/\ call = "fetch_asset_data" /\ ret.stage \in {"returned", "charted"}
        /\ ret.data # None /\ Len(ret.data.prices) = 1) =>
          /\ ret.data.trend = "LATERAL"
          /\ ret.data.angle = F(0)

\* a snapshot has been built from a single usable price
C2_Witness ==
    /\ call = "fetch_asset_data"
    /\ ret.stage = "returned"
    /\ ret.data # None
    /\ Len(ret.data.prices) = 1
    /\ ret.data.trend = "LATERAL"

\* the series a fetch works on: the kept closes (cache variant), all closes (loop variant)
FetchedSeries ==
    IF variant = "cache"
    THEN LET keep == dropna(arg.up.close) IN [i \in 1..Len(keep) |-> arg.up.close[keep[i]]]
    ELSE arg.up.close

\* C6: when the first price of a fetched series is 0, fetch_asset_data yields a snapshot
\* with change_pct = 0.0 (no exception, no absence, no infinity); for a nonzero first
\* price change_pct = (last - first) / first * 100.  Stated for series without missing
\* values that are long enough for the variant to build a snapshot.
C6_ChangePctGuarded ==
    (/\ call = "fetch_asset_data" /\ ret # Pending /\ arg.up.kind = "frame"
     /\ Len(FetchedSeries) >= (IF variant = "cache" THEN 1 ELSE 2)
     /\ ~HasNaN(FetchedSeries)) =>
        LET first == FetchedSeries[1]
            last == FetchedSeries[Len(FetchedSeries)]
        IN  /\ ret.stage # "raised"
            /\ ret.data # None
            /\ ret.data.change_pct =
                 IF first.num = 0 THEN F(0)
                 ELSE Rat((last.num * first.den - first.num * last.den) * 100,
                          last.den * first.num)

NoMissing(prices) == ~HasNaN(prices)

Constant(prices) == \A i \in 1..Len(prices) : prices[i] = prices[1]

Charted == call = "fetch_asset_data" /\ ret.stage = "charted" /\ ret.data # None

HasTrace == ret.trace # NoTrace

\* the smallest value is 0 and the largest is 100
Spans0To100(y) ==
    /\ \E i \in 1..Len(y) : y[i] = F(0)
    /\ \E i \in 1..Len(y) : y[i] = F(100)
    /\ \A i \in 1..Len(y) : FGe(y[i], F(0)) /\ FLe(y[i], F(100))

Loading == IF variant = "loop" THEN wpc \in {"main_load", "cycle"} ELSE wpc = "load"

\* the assets the load loop has dealt with in the current cycle or run
Processed ==
    IF Loading THEN {Assets[i] : i \in 1..(widx - 1)} ELSE Symbols

LoadOver == Processed = Symbols

Failed(s) == s \in DOMAIN fetched /\ fetched[s].data = None

Succeeded(s) == s \in DOMAIN fetched /\ fetched[s].data # None

\* every asset the loop has passed was fetched, whatever the others did, and the result
\* of a successful fetch is what is stored for it
FetchedAndStored ==
    /\ Processed = DOMAIN fetched
    /\ \A s \in DOMAIN fetched : Succeeded(s) => Get(data_store, s) = fetched[s].data

\* a step that fetches one asset leaves what is stored for every other asset alone
OthersUntouched ==
    \A s \in Symbols :
        (s \notin DOMAIN fetched /\ s \in DOMAIN fetched') =>
            \A t \in Symbols \ {s} : Get(data_store', t) = Get(data_store, t)

\* C3: within one refresh cycle a fetch failure for one symbol (exception, empty result,
\* no usable prices) never prevents the fetch of any other symbol and never changes the
\* result stored for any other symbol: every configured symbol is fetched in every
\* cycle, in both variants.
C3_FetchIsolation == []FetchedAndStored /\ [][OthersUntouched]_vars

\* the first asset's fetch raised and the second asset's fetch was made and stored
C3_Witness ==
    /\ variant = "cache"
    /\ LoadOver
    /\ fetched[Assets[1]].raised
    /\ Succeeded(Assets[2])
    /\ Assets[2] \in DOMAIN data_store

\* every field of the snapshot derives from the one price series it holds
Complete(d) ==
    LET n == Len(d.prices)
    IN  /\ n >= 2
        /\ d.symbol \in Symbols
        /\ d.times = [i \in 1..n |-> i]
        /\ d.current_price = d.prices[n]
        /\ d.change = FSub(d.prices[n], d.prices[1])
        /\ d.change_pct = FMul(FDiv(d.change, d.prices[1]), F(100))
        /\ d.slope = PolyfitSlope(d.prices)
        /\ d.angle = ArctanDeg(d.slope)
        /\ [trend |-> d.trend, trend_color |-> d.trend_color] = get_trend_info_old(d.slope, d.angle)

\* C4: in the loop variant, with update_all_data interleaved with update_dashboard, any
\* snapshot the rendering pass obtains from data_store is a complete snapshot of a single
\* fetch_asset_data call: it is never partially built nor mixed from two fetches.
C4_WholeSnapshots ==
    (variant = "loop" /\ rdata # None) => Complete(rdata)

\* the pass holds a snapshot that the thread has meanwhile replaced by another
C4_Witness ==
    /\ variant = "loop"
    /\ rdata # None
    /\ data_store[rdata.symbol] # rdata

\* C5: after a refresh cycle in which the fetch of a symbol failed, the mapping read by
\* the rendering pass holds absence for that symbol and only for it: no snapshot of an
\* earlier cycle remains stored for the failed symbol, in either variant.
C5_FailedSymbolAbsent ==
    LoadOver =>
        \A s \in Symbols :
            /\ Failed(s) => s \notin DOMAIN data_store
            /\ Succeeded(s) => s \in DOMAIN data_store

\* the cards of the current rendering pass are all built
CardsBuilt ==
    IF variant = "loop" THEN rpc \in {"charts", "text"} ELSE wpc \in {"charts", "idle"}

\* C8: every rendering pass produces exactly one card per configured asset, in both
\* variants and for every content of data_store; an asset without snapshot gets a card
\* showing the no-data state.
C8_OneCardPerAsset ==
    CardsBuilt =>
        /\ Len(cards) = Len(Assets)
        /\ \A i \in 1..Len(Assets) : cards[i].symbol = Assets[i]

\* the entry of s is within its time to live at time t
Fresh(s, t) == s \in DOMAIN cache /\ t - cache[s].stored <= TTL

\* the step is an iteration of the load loop for s
LoadsSymbol(s) == wpc = "load" /\ widx <= Len(Assets) /\ Assets[widx] = s /\ widx' = widx + 1

\* C9 as claimed: a cached result is discarded only by the expiry of its time to live;
\* within it no user action or other operation invalidates the entry.
C9_AsClaimed ==
    [][\A i \in 1..NumAssets :
          (variant = "cache" /\ Fresh(ASSETS[i], now) /\ Fresh(ASSETS[i], now')) =>
              (ASSETS[i] \in DOMAIN cache' /\ cache'[ASSETS[i]] = cache[ASSETS[i]])]_vars

\* the run started by the button reaches lines 78-80
ButtonClears == wpc = "button" /\ clicked

\* C9 (amended): a cached result is discarded by the expiry of its 60-second time to live
\* or by the "Atualizar Agora" button, which clears the whole cache and reruns the script;
\* in every other step an entry within its time to live stays as it is, and a rendering
\* pass that loads its symbol is served the cached value and stores it in data_store.
C9_CacheWithinTTL ==
    [][\A i \in 1..NumAssets :
          (variant = "cache" /\ Fresh(ASSETS[i], now) /\ Fresh(ASSETS[i], now')) =>
              \/ ButtonClears /\ cache' = EmptyDict
              \/ /\ ASSETS[i] \in DOMAIN cache' /\ cache'[ASSETS[i]] = cache[ASSETS[i]]
                 /\ LoadsSymbol(ASSETS[i]) =>
                      /\ fetched'[ASSETS[i]].hit
                      /\ fetched'[ASSETS[i]].data = cache[ASSETS[i]].value
                      /\ Get(data_store', ASSETS[i]) = cache[ASSETS[i]].value]_vars

\* a later pass, after time has passed, was served from the cache
C9_Witness ==
    /\ variant = "cache"
    /\ now > 0
    /\ \E s \in DOMAIN fetched : fetched[s].hit /\ cache[s].stored < now

\* the loop has not been left
ThreadAlive == wpc # "dead"

\* within a cycle the loop only moves on to the next asset
NoRetry ==
    (wpc = "cycle" /\ wpc' = "cycle" /\ widx' # widx) => widx' = widx + 1

CycleDone ==
    /\ wpc = "sleep"
    /\ last_update = <<now>>
    /\ DOMAIN fetched = {ASSETS_old[i] : i \in 1..NumAssets}

\* the sleep over, the next cycle starts at the first asset with nothing fetched yet
NextCycleFetchesAll ==
    (wpc = "sleep" /\ wpc' # "sleep") => (wpc' = "cycle" /\ widx' = 1 /\ fetched' = EmptyDict)

\* C10: in the loop variant no fetch outcome ends the loop of update_all_data: under fair
\* scheduling every refresh cycle runs to completion and sets last_update at its end, even
\* when every fetch failed; a failed symbol is not retried within the cycle and is
\* fetched again in the next one.
C10_LoopKeepsRunning ==
    /\ []ThreadAlive
    /\ [][NoRetry /\ NextCycleFetchesAll]_vars
    /\ (wpc = "cycle") ~> CycleDone
    /\ (wpc = "sleep" /\ now < MaxCycles * SleepSeconds) ~> (wpc = "cycle")

\* a later cycle in which every fetch failed has ended with last_update set
C10_Witness ==
    /\ variant = "loop"
    /\ wpc = "sleep"
    /\ now > 0
    /\ last_update = <<now>>
    /\ \A s \in Symbols : Failed(s)

\* the snapshots fetch_asset_data can return for the k-th asset of the loop variant
SnapshotsOf(k) == {FetchedOld[k, up] : up \in SysUpstream} \ {None}

\* the card c and the trace t of the k-th asset are built from one snapshot
FromOneSnapshot(k, c, t) ==
    \E d \in SnapshotsOf(k) :
        /\ c = card_old(ASSETS_old[k], d)
        /\ t = chart_trace_old(d)

\* C11: in the loop variant, when a pass of update_dashboard has built its cards and its
\* figure, the card and the trace it shows for one symbol are derived from the same
\* snapshot, whatever update_all_data did between the card loop and the chart loop.
C11_CardAndChartAgree ==
    (variant = "loop" /\ rpc = "text") =>
        \A i \in 1..Len(cards), j \in 1..Len(traces), k \in 1..NumAssets :
            (cards[i].symbol = ASSETS_old[k] /\ traces[j].symbol = ASSETS_old[k])
                => FromOneSnapshot(k, cards[i], traces[j].trace)

====
